---- MODULE Spec2Model ----
(***************************************************************************)
(* Project-ALICE mobile client (src/app.js): the two-party consent,       *)
(* polling, capture and upload flow of VideoCallScreen and ConsentScreen,  *)
(* run by two clients against one backend.                                 *)
(*                                                                         *)
(* The backend is not part of src/: its session/consent state machine is   *)
(* modelled from spec.md (sections 3, 4.1 and 6).  Everything the clients  *)
(* do is translated from src/app.js.                                       *)
(*                                                                         *)
(* A request in flight is an element of the bag `net`.  The step that      *)
(* completes a request draws its outcome, applies the backend's effect and *)
(* runs the client's continuation after `await fetch(...)` to its end.     *)
(***************************************************************************)
EXTENDS Integers, FiniteSets, Sequences, Bags, TLC

\* ------------------------------------------------------------------ bounds

\* Sessions the backend will create (create requests the initiator issues).
MaxSessions == 2
\* Consent submissions, alerts and poll chains the two clients have pending at once.
MaxPending == 2
\* Recordings (recordAsync calls and their uploads) pending at once.
MaxRecordings == 2

\* README.md, config/api.js: API_CONFIG.RETRY_ATTEMPTS.
RETRY_ATTEMPTS == 3

\* ------------------------------------------------------------------ values

Clients == {"initiator", "participant"}
Other(c) == IF c = "initiator" THEN "participant" ELSE "initiator"

SessionIds == 1..MaxSessions
\* useState(null): no session id yet.
NoSession == 0

Decisions == {"Pending", "Granted", "Declined"}
SessionStates ==
    {"None", "Created", "AwaitingConsent", "BothConsented", "Started",
     "Cancelled", "Expired"}

\* What fetch() and response.json() can do to the caller.
\*   served  : the backend handled the request and answered (ok, or its own
\*             rejection with response.ok false); the body is readable
\*   401     : the bearer token was refused; response.ok false, body readable
\*   error   : another error response that never reached the session logic
\*             (5xx); response.ok false, body readable
\*   badjson : a response whose body response.json() cannot read (it throws)
\*   neterr  : fetch() itself rejects (network error, timeout)
Outcomes == {"served", "401", "error", "badjson", "neterr"}
\* Handlers that never call response.json() cannot meet badjson.
NoBodyOutcomes == {"served", "401", "error", "neterr"}
\* The upload's claims distinguish the status classes of an error response.
UploadOutcomes == {"served", "401", "503", "4xx", "neterr"}

Req(type, c, sid, arg) == [type |-> type, c |-> c, sid |-> sid, arg |-> arg]
Alert(msg, sid) == [msg |-> msg, sid |-> sid]
\* One call of cameraRef.current.recordAsync that has not settled: the session
\* id its closure holds, and whether cameraRef.current.stopRecording() has
\* been called since.
Take(sid, stop) == [sid |-> sid, stop |-> stop]
One(x) == SetToBag({x})

VARIABLES
    sess,        \* backend: session id -> [state, dec: client -> decision]
    net,         \* bag of requests in flight
    timers,      \* client -> bag of session ids: pending setTimeout(checkSessionStatus)
    alerts,      \* client -> bag of alerts shown and not yet acknowledged
    screen,      \* client -> "closed" | "open" | "left": its ConsentScreen
    consentSid,  \* client -> route.params.sessionId of its ConsentScreen
    sessionId,   \* VideoCallScreen state of the initiator
    isRecording, \* VideoCallScreen state of the initiator
    recording,   \* bag of Take: recordAsync calls not yet settled
    task         \* the upload of the most recent artifact: [status, attempt,
                 \* reason, held]; held: the client still references data.uri

vars ==
    <<sess, net, timers, alerts, screen, consentSid, sessionId, isRecording,
      recording, task>>

\* spec.md 3: UploadTask, before any artifact exists.
NoTask == [status |-> "None", attempt |-> 0, reason |-> "none", held |-> FALSE]

\* ------------------------------------------------------------------ backend
\* Modelled from spec.md: the backend's code is not under src/.

NoDecisions == [c \in Clients |-> "Pending"]
NoRecord == [state |-> "None", dec |-> NoDecisions]

\* spec.md 4.1: evaluate(session, records).
Evaluate(dec) ==
    IF \E c \in Clients : dec[c] = "Declined" THEN "Cancelled"
    ELSE IF \A c \in Clients : dec[c] = "Granted" THEN "BothConsented"
    ELSE "AwaitingConsent"

\* spec.md 4.1: a submission is applied only while consent is being gathered.
AcceptsConsent(s) == s.state \in {"Created", "AwaitingConsent"}

\* A backend that writes the pair back from a view read before the other
\* participant's write: the lost-update race.
ApplyConsentFromStaleView(s, c, d) ==
    LET dec == [NoDecisions EXCEPT ![c] = d]
    IN  [state |-> Evaluate(dec), dec |-> dec]

\* spec.md 4.1: submitConsent applied to one session record, atomically.
ApplyConsent(s, c, d) ==
    LET dec == [s.dec EXCEPT ![c] = d]
    IN  [state |-> Evaluate(dec), dec |-> dec]

\* spec.md 6: Poll status -> both_consented.
BothConsented(s) == s.state \in {"BothConsented", "Started"}

\* spec.md 6: Start session is only valid once both_consented.
StartValid(s) == BothConsented(s)

Created == {s \in SessionIds : sess[s].state # "None"}
NextId == Cardinality(Created) + 1

\* ------------------------------------------------------------------ helpers

\* Requests of one type one client has in flight.
InFlight(type, c) ==
    LET S == {m \in BagToSet(net) : m.type = type /\ m.c = c}
        RECURSIVE Sum(_)
        Sum(T) == IF T = {} THEN 0
                  ELSE LET m == CHOOSE x \in T : TRUE
                       IN  CopiesIn(m, net) + Sum(T \ {m})
    IN  Sum(S)

\* An Alert is modal: while one is shown the screen below takes no presses.
NoAlert(c) == alerts[c] = EmptyBag

\* What one client has pending on its ConsentScreen.
Pending(c) ==
    InFlight("consent", c) + InFlight("status", c) + InFlight("start", c)
    + BagCardinality(timers[c]) + BagCardinality(alerts[c])

\* Alerts whose OK button runs a handler; the handler of 'Consent Recorded'
\* closes over the ConsentScreen's sessionId.
GoBackAlerts == {"Session Cancelled", "Session Started"}
HandlerAlerts == GoBackAlerts \cup {"Consent Recorded"}

Show(c, msg, sid) ==
    [alerts EXCEPT ![c] =
        @ (+) One(Alert(msg, IF msg \in HandlerAlerts THEN sid ELSE NoSession))]

Init ==
    /\ sess = [s \in SessionIds |-> NoRecord]
    /\ net = EmptyBag
    /\ timers = [c \in Clients |-> EmptyBag]
    /\ alerts = [c \in Clients |-> EmptyBag]
    /\ screen = [c \in Clients |-> "closed"]
    /\ consentSid = [c \in Clients |-> NoSession]
    /\ sessionId = NoSession
    /\ isRecording = FALSE
    /\ recording = EmptyBag
    /\ task = NoTask

\* ------------------------------------------------------- ConsentScreen

\* submitConsent without its `if (response.ok)` test.
ConsentAlertIgnoringStatus(ok, d) ==
    IF d = "Granted" THEN "Consent Recorded" ELSE "Session Cancelled"

\* submitConsent without its `if (consent)` test.
ConsentAlertIgnoringDecision(ok, d) ==
    IF ok THEN "Consent Recorded" ELSE "Failed to record consent"

\* submitConsent, after the response: the alert it shows.
ConsentAlert(ok, d) ==
    IF ok
    THEN IF d = "Granted" THEN "Consent Recorded" ELSE "Session Cancelled"
    ELSE "Failed to record consent"

\* checkSessionStatus with the both_consented test negated.
ShouldStartUnlessConsented(ok, both) == ok /\ ~both

\* checkSessionStatus testing response.ok alone.
ShouldStartOnAnyOk(ok, both) == ok

\* checkSessionStatus: response.ok && data.both_consented.
ShouldStart(ok, both) == ok /\ both

\* The participant's device opens the ConsentScreen of a created session.
OpenConsent(s) ==
    /\ screen["participant"] = "closed"
    /\ s \in Created
    /\ screen' = [screen EXCEPT !["participant"] = "open"]
    /\ consentSid' = [consentSid EXCEPT !["participant"] = s]
    /\ UNCHANGED <<sess, net, timers, alerts, sessionId, isRecording, recording, task>>

\* onPress of 'I Consent' / 'Decline': submitConsent up to its fetch.
PressConsent(c, d) ==
    /\ screen[c] = "open"
    /\ NoAlert(c)
    /\ Pending("initiator") + Pending("participant") < MaxPending
    /\ net' = net (+) One(Req("consent", c, consentSid[c], d))
    /\ UNCHANGED <<sess, timers, alerts, screen, consentSid, sessionId,
                   isRecording, recording, task>>

\* The consent request completes; submitConsent runs from `if (response.ok)`.
CompleteConsent(c, s, d, o) ==
    LET r == Req("consent", c, s, d)
        applied == o = "served" /\ AcceptsConsent(sess[s])
        msg == IF o = "neterr" THEN "Network error" ELSE ConsentAlert(applied, d)
    IN  /\ BagIn(r, net)
        /\ net' = net (-) One(r)
        /\ sess' = IF applied THEN [sess EXCEPT ![s] = ApplyConsent(@, c, d)]
                   ELSE sess
        /\ alerts' = Show(c, msg, s)
        /\ UNCHANGED <<timers, screen, consentSid, sessionId, isRecording,
                       recording, task>>

\* OK on 'Consent Recorded': checkSessionStatus() up to its fetch.
AckConsentRecorded(c, s) ==
    LET a == Alert("Consent Recorded", s)
    IN  /\ BagIn(a, alerts[c])
        /\ alerts' = [alerts EXCEPT ![c] = @ (-) One(a)]
        /\ net' = net (+) One(Req("status", c, s, "none"))
        /\ UNCHANGED <<sess, timers, screen, consentSid, sessionId,
                       isRecording, recording, task>>

\* OK on 'Session Cancelled' or 'Session Started': navigation.goBack().
AckGoBack(c, a) ==
    /\ BagIn(a, alerts[c])
    /\ a.msg \in GoBackAlerts
    /\ alerts' = [alerts EXCEPT ![c] = @ (-) One(a)]
    /\ screen' = [screen EXCEPT ![c] = IF @ = "open" THEN "left" ELSE @]
    /\ UNCHANGED <<sess, net, timers, consentSid, sessionId, isRecording,
                   recording, task>>

\* OK on an alert with no handler: the alert goes away.
AckDismiss(c, a) ==
    /\ BagIn(a, alerts[c])
    /\ a.msg \notin HandlerAlerts
    /\ alerts' = [alerts EXCEPT ![c] = @ (-) One(a)]
    /\ UNCHANGED <<sess, net, timers, screen, consentSid, sessionId,
                   isRecording, recording, task>>

\* setTimeout(checkSessionStatus, 3000) fires: checkSessionStatus up to its fetch.
TimerFire(c, s) ==
    /\ BagIn(s, timers[c])
    /\ timers' = [timers EXCEPT ![c] = @ (-) One(s)]
    /\ net' = net (+) One(Req("status", c, s, "none"))
    /\ UNCHANGED <<sess, alerts, screen, consentSid, sessionId, isRecording,
                   recording, task>>

\* The status request completes; checkSessionStatus runs from response.json().
CompleteStatus(c, s, o) ==
    LET r == Req("status", c, s, "none")
        threw == o \in {"badjson", "neterr"}
        ok == o = "served"
        both == ok /\ BothConsented(sess[s])
        did == IF threw THEN "stopped"
               ELSE IF ShouldStart(ok, both) THEN "start" ELSE "timer"
    IN  /\ BagIn(r, net)
        /\ net' = IF did = "start"
                  THEN (net (-) One(r)) (+) One(Req("start", c, s, "none"))
                  ELSE net (-) One(r)
        /\ timers' = IF did = "timer" THEN [timers EXCEPT ![c] = @ (+) One(s)]
                     ELSE timers
        /\ UNCHANGED <<sess, alerts, screen, consentSid, sessionId,
                       isRecording, recording, task>>

\* A startSession that goes back to polling when the start request fails.
CompleteStartResumingPoll(c, s, o) ==
    LET r == Req("start", c, s, "none")
        ok == o = "served" /\ StartValid(sess[s])
    IN  /\ BagIn(r, net)
        /\ net' = net (-) One(r)
        /\ sess' = IF ok THEN [sess EXCEPT ![s].state = "Started"] ELSE sess
        /\ alerts' = IF ok THEN Show(c, "Session Started", s) ELSE alerts
        /\ timers' = IF ok THEN timers ELSE [timers EXCEPT ![c] = @ (+) One(s)]
        /\ UNCHANGED <<screen, consentSid, sessionId, isRecording, recording, task>>

\* The start request completes; startSession runs from `if (response.ok)`.
CompleteStart(c, s, o) ==
    LET r == Req("start", c, s, "none")
        ok == o = "served" /\ StartValid(sess[s])
    IN  /\ BagIn(r, net)
        /\ net' = net (-) One(r)
        /\ sess' = IF ok THEN [sess EXCEPT ![s].state = "Started"] ELSE sess
        /\ alerts' = IF ok THEN Show(c, "Session Started", s) ELSE alerts
        /\ UNCHANGED <<timers, screen, consentSid, sessionId, isRecording,
                       recording, task>>

\* spec.md 3: Expired is reached from AwaitingConsent or BothConsented by timeout.
Expire(s) ==
    /\ sess[s].state \in {"AwaitingConsent", "BothConsented"}
    /\ sess' = [sess EXCEPT ![s].state = "Expired"]
    /\ UNCHANGED <<net, timers, alerts, screen, consentSid, sessionId,
                   isRecording, recording, task>>

\* ------------------------------------------------------ VideoCallScreen

\* The VideoCallScreen is on top unless the initiator's ConsentScreen is.
OnVideoCall == screen["initiator"] # "open"

\* onPress of 'Start Session': createSession up to its fetch.  The button is
\* rendered only while sessionId is null.
PressCreate ==
    /\ OnVideoCall
    /\ NoAlert("initiator")
    /\ sessionId = NoSession
    /\ Cardinality(Created) + InFlight("create", "initiator") < MaxSessions
    /\ net' = net (+) One(Req("create", "initiator", NoSession, "none"))
    /\ UNCHANGED <<sess, timers, alerts, screen, consentSid, sessionId,
                   isRecording, recording, task>>

\* createSession without its `if (response.ok)`: whatever the response, it
\* sets sessionId and navigates to Consent.
CompleteCreateIgnoringOk(o) ==
    LET r == Req("create", "initiator", NoSession, "none")
        id == NextId
    IN  /\ BagIn(r, net)
        /\ net' = net (-) One(r)
        /\ IF o \notin {"badjson", "neterr"}
           THEN /\ sess' = IF o = "served"
                           THEN [sess EXCEPT ![id].state = "Created"] ELSE sess
                /\ sessionId' = id
                /\ screen' = [screen EXCEPT !["initiator"] = "open"]
                /\ consentSid' = [consentSid EXCEPT !["initiator"] = id]
                /\ alerts' = alerts
           ELSE /\ alerts' = Show("initiator", "Network error", NoSession)
                /\ UNCHANGED <<sess, sessionId, screen, consentSid>>
        /\ UNCHANGED <<timers, isRecording, recording, task>>

\* The create request completes; createSession runs from response.json().
CompleteCreate(o) ==
    LET r == Req("create", "initiator", NoSession, "none")
        id == NextId
    IN  /\ BagIn(r, net)
        /\ net' = net (-) One(r)
        /\ IF o = "served"
           THEN /\ sess' = [sess EXCEPT ![id].state = "Created"]
                /\ sessionId' = id
                /\ screen' = [screen EXCEPT !["initiator"] = "open"]
                /\ consentSid' = [consentSid EXCEPT !["initiator"] = id]
                /\ alerts' = alerts
           ELSE /\ alerts' = Show("initiator",
                                  IF o \in {"badjson", "neterr"} THEN "Network error"
                                  ELSE "Failed to create session", NoSession)
                /\ UNCHANGED <<sess, sessionId, screen, consentSid>>
        /\ UNCHANGED <<timers, isRecording, recording, task>>

\* startRecording's guard: `if (!cameraRef.current || !sessionId) return`.
\* The camera is mounted whenever the record button is.
CanRecord(sid) == sid # NoSession

\* cameraRef.current.stopRecording(): the camera ends whatever it is
\* recording; each recordAsync promise settles in a later step.
StopAll(b) ==
    LET S == {Take(t.sid, TRUE) : t \in BagToSet(b)}
    IN  [t \in S |-> CopiesIn(t, b) + CopiesIn(Take(t.sid, FALSE), b)]

\* onPress of the record button: toggleRecording, with stopRecording or
\* startRecording up to `await recordAsync`.
ToggleRecording ==
    /\ OnVideoCall
    /\ NoAlert("initiator")
    /\ IF isRecording
       THEN /\ isRecording' = FALSE
            /\ recording' = StopAll(recording)
       ELSE /\ BagCardinality(recording) + InFlight("upload", "initiator")
                  < MaxRecordings
            /\ isRecording' = TRUE
            /\ recording' = IF CanRecord(sessionId)
                            THEN recording (+) One(Take(sessionId, FALSE))
                            ELSE recording
    /\ UNCHANGED <<sess, net, timers, alerts, screen, consentSid, sessionId, task>>

\* A startRecording that submits the artifact and submits it again.
RecordDoneUploadingTwice(t) ==
    /\ BagIn(t, recording)
    /\ recording' = recording (-) One(t)
    /\ net' = (net (+) One(Req("upload", "initiator", t.sid, "none")))
                   (+) One(Req("upload", "initiator", t.sid, "none"))
    /\ task' = [status |-> "InFlight", attempt |-> 1, reason |-> "none",
                held |-> TRUE]
    /\ UNCHANGED <<sess, timers, alerts, screen, consentSid, sessionId,
                   isRecording>>

\* recordAsync resolves with data.uri: startRecording goes on to
\* uploadVideoForAnalysis' fetch.  A take with stop set was ended by
\* stopRecording(); one without was ended by the device at
\* options.maxDuration (1800 s).  Nothing here writes isRecording.
RecordDone(t) ==
    /\ BagIn(t, recording)
    /\ recording' = recording (-) One(t)
    /\ net' = net (+) One(Req("upload", "initiator", t.sid, "none"))
    /\ task' = [status |-> "InFlight", attempt |-> 1, reason |-> "none",
                held |-> TRUE]
    /\ UNCHANGED <<sess, timers, alerts, screen, consentSid, sessionId,
                   isRecording>>

\* Why recordAsync can reject: the device could not start the capture, or the
\* capture broke off after it had started.
FailCauses == {"unavailable", "midrecording"}

\* startRecording's catch: one message for every rejection.
RecordingAlert(why) == "Failed to start recording"

\* recordAsync rejects: startRecording's catch.
RecordFail(t, why) ==
    /\ BagIn(t, recording)
    /\ recording' = recording (-) One(t)
    /\ alerts' = Show("initiator", RecordingAlert(why), t.sid)
    /\ UNCHANGED <<sess, net, timers, screen, consentSid, sessionId,
                   isRecording, task>>

\* uploadVideoForAnalysis settles after its one fetch: there is no retry loop,
\* so the attempt count stays what it was when the request was issued.  The
\* uri is the parameter videoUri and startRecording's local `data`: both are
\* gone when the two functions return, whatever the outcome.
UploadSettled(tk, o) ==
    [status |-> IF o = "served" THEN "Succeeded" ELSE "Failed",
     attempt |-> tk.attempt, reason |-> o, held |-> FALSE]

UploadAlert(o) ==
    IF o = "served" THEN "Video uploaded for analysis"
    ELSE IF o = "neterr" THEN "Upload failed"
    ELSE "Failed to upload video"

\* The upload request completes; uploadVideoForAnalysis runs from
\* `if (response.ok)`.
CompleteUpload(s, o) ==
    LET r == Req("upload", "initiator", s, "none")
    IN  /\ BagIn(r, net)
        /\ net' = net (-) One(r)
        /\ alerts' = Show("initiator", UploadAlert(o), s)
        /\ task' = UploadSettled(task, o)
        /\ UNCHANGED <<sess, timers, screen, consentSid, sessionId,
                       isRecording, recording>>

\* ------------------------------------------------------------ behaviours

AlertsOf(c) == BagToSet(alerts[c])

Next ==
    \/ \E s \in SessionIds : OpenConsent(s)
    \/ \E c \in Clients, d \in {"Granted", "Declined"} : PressConsent(c, d)
    \/ \E c \in Clients, s \in SessionIds, d \in {"Granted", "Declined"},
          o \in NoBodyOutcomes : CompleteConsent(c, s, d, o)
    \/ \E c \in Clients, s \in SessionIds : AckConsentRecorded(c, s)
    \/ \E c \in Clients : \E a \in AlertsOf(c) : AckGoBack(c, a)
    \/ \E c \in Clients : \E a \in AlertsOf(c) : AckDismiss(c, a)
    \/ \E c \in Clients, s \in SessionIds : TimerFire(c, s)
    \/ \E c \in Clients, s \in SessionIds, o \in Outcomes : CompleteStatus(c, s, o)
    \/ \E c \in Clients, s \in SessionIds, o \in NoBodyOutcomes : CompleteStart(c, s, o)
    \/ \E s \in SessionIds : Expire(s)
    \/ PressCreate
    \/ \E o \in Outcomes : CompleteCreate(o)
    \/ ToggleRecording
    \/ \E t \in BagToSet(recording) : RecordDone(t)
    \/ \E t \in BagToSet(recording), why \in FailCauses : RecordFail(t, why)
    \/ \E s \in SessionIds, o \in UploadOutcomes : CompleteUpload(s, o)

Spec == Init /\ [][Next]_vars

\* The consent flow alone: session creation, consent, polling and start.  The
\* capture and upload steps read and write none of sess, timers, screen and
\* consentSid.
ConsentNext ==
    \/ \E s \in SessionIds : OpenConsent(s)
    \/ \E c \in Clients, d \in {"Granted", "Declined"} : PressConsent(c, d)
    \/ \E c \in Clients, s \in SessionIds, d \in {"Granted", "Declined"},
          o \in NoBodyOutcomes : CompleteConsent(c, s, d, o)
    \/ \E c \in Clients, s \in SessionIds : AckConsentRecorded(c, s)
    \/ \E c \in Clients : \E a \in AlertsOf(c) : AckGoBack(c, a)
    \/ \E c \in Clients : \E a \in AlertsOf(c) : AckDismiss(c, a)
    \/ \E c \in Clients, s \in SessionIds : TimerFire(c, s)
    \/ \E c \in Clients, s \in SessionIds, o \in Outcomes : CompleteStatus(c, s, o)
    \/ \E c \in Clients, s \in SessionIds, o \in NoBodyOutcomes : CompleteStart(c, s, o)
    \/ \E s \in SessionIds : Expire(s)
    \/ PressCreate
    \/ \E o \in Outcomes : CompleteCreate(o)

ConsentSpec == Init /\ [][ConsentNext]_vars

\* The initiator's device alone: session creation, the way back from the
\* ConsentScreen that needs no second device ('Decline', then OK on 'Session
\* Cancelled'), capture and upload.  The create and consent requests are
\* served: their failures leave the capture state as it was; recordAsync and
\* the upload settle every way they can.
CaptureNext ==
    \/ PressConsent("initiator", "Declined")
    \/ \E s \in SessionIds : CompleteConsent("initiator", s, "Declined", "served")
    \/ \E a \in AlertsOf("initiator") : AckGoBack("initiator", a)
    \/ \E a \in AlertsOf("initiator") : AckDismiss("initiator", a)
    \/ PressCreate
    \/ CompleteCreate("served")
    \/ ToggleRecording
    \/ \E t \in BagToSet(recording) : RecordDone(t)
    \/ \E t \in BagToSet(recording), why \in FailCauses : RecordFail(t, why)
    \/ \E s \in SessionIds, o \in UploadOutcomes : CompleteUpload(s, o)

CaptureSpec == Init /\ [][CaptureNext]_vars

\* The consent flow over a transport that never fails, within the session's
\* lifetime: every request is served, so every response is the backend's own
\* answer, and the session does not time out.
ReliableNext ==
    \/ \E s \in SessionIds : OpenConsent(s)
    \/ \E c \in Clients, d \in {"Granted", "Declined"} : PressConsent(c, d)
    \/ \E c \in Clients, s \in SessionIds, d \in {"Granted", "Declined"} :
          CompleteConsent(c, s, d, "served")
    \/ \E c \in Clients, s \in SessionIds : AckConsentRecorded(c, s)
    \/ \E c \in Clients : \E a \in AlertsOf(c) : AckGoBack(c, a)
    \/ \E c \in Clients : \E a \in AlertsOf(c) : AckDismiss(c, a)
    \/ \E c \in Clients, s \in SessionIds : TimerFire(c, s)
    \/ \E c \in Clients, s \in SessionIds : CompleteStatus(c, s, "served")
    \/ \E c \in Clients, s \in SessionIds : CompleteStart(c, s, "served")
    \/ PressCreate
    \/ CompleteCreate("served")

ReliableSpec == Init /\ [][ReliableNext]_vars

\* The happy path: the transport never fails, nobody declines and the session
\* does not time out.  Requests in flight complete, timers fire and shown
\* alerts are acknowledged (weak fairness); pressing a button is never forced.
HappyNext ==
    \/ \E s \in SessionIds : OpenConsent(s)
    \/ \E c \in Clients : PressConsent(c, "Granted")
    \/ \E c \in Clients, s \in SessionIds : CompleteConsent(c, s, "Granted", "served")
    \/ \E c \in Clients, s \in SessionIds : AckConsentRecorded(c, s)
    \/ \E c \in Clients : \E a \in AlertsOf(c) : AckGoBack(c, a)
    \/ \E c \in Clients, s \in SessionIds : TimerFire(c, s)
    \/ \E c \in Clients, s \in SessionIds : CompleteStatus(c, s, "served")
    \/ \E c \in Clients, s \in SessionIds : CompleteStart(c, s, "served")
    \/ PressCreate
    \/ CompleteCreate("served")

HappyFairness ==
    /\ \A c \in Clients, s \in SessionIds :
          /\ WF_vars(CompleteConsent(c, s, "Granted", "served"))
          /\ WF_vars(AckConsentRecorded(c, s))
          /\ WF_vars(TimerFire(c, s))
          /\ WF_vars(CompleteStatus(c, s, "served"))
          /\ WF_vars(CompleteStart(c, s, "served"))
    /\ WF_vars(CompleteCreate("served"))

HappySpec == Init /\ [][HappyNext]_vars /\ HappyFairness

\* The poll chain under failure: sessions are created and consent is
\* submitted over a transport that serves those two requests, and the status
\* and start requests settle every way they can.
PollNext ==
    \/ \E s \in SessionIds : OpenConsent(s)
    \/ \E c \in Clients, d \in {"Granted", "Declined"} : PressConsent(c, d)
    \/ \E c \in Clients, s \in SessionIds, d \in {"Granted", "Declined"} :
          CompleteConsent(c, s, d, "served")
    \/ \E c \in Clients, s \in SessionIds : AckConsentRecorded(c, s)
    \/ \E c \in Clients : \E a \in AlertsOf(c) : AckGoBack(c, a)
    \/ \E c \in Clients : \E a \in AlertsOf(c) : AckDismiss(c, a)
    \/ \E c \in Clients, s \in SessionIds : TimerFire(c, s)
    \/ \E c \in Clients, s \in SessionIds, o \in Outcomes : CompleteStatus(c, s, o)
    \/ \E c \in Clients, s \in SessionIds, o \in NoBodyOutcomes : CompleteStart(c, s, o)
    \/ PressCreate
    \/ CompleteCreate("served")

PollSpec == Init /\ [][PollNext]_vars

\* The consent submission under failure: the consent request settles every
\* way it can, over a transport that serves the create, status and start
\* requests.
SubmitNext ==
    \/ \E s \in SessionIds : OpenConsent(s)
    \/ \E c \in Clients, d \in {"Granted", "Declined"} : PressConsent(c, d)
    \/ \E c \in Clients, s \in SessionIds, d \in {"Granted", "Declined"},
          o \in NoBodyOutcomes : CompleteConsent(c, s, d, o)
    \/ \E c \in Clients, s \in SessionIds : AckConsentRecorded(c, s)
    \/ \E c \in Clients : \E a \in AlertsOf(c) : AckGoBack(c, a)
    \/ \E c \in Clients : \E a \in AlertsOf(c) : AckDismiss(c, a)
    \/ \E c \in Clients, s \in SessionIds : TimerFire(c, s)
    \/ \E c \in Clients, s \in SessionIds : CompleteStatus(c, s, "served")
    \/ \E c \in Clients, s \in SessionIds : CompleteStart(c, s, "served")
    \/ PressCreate
    \/ CompleteCreate("served")

SubmitSpec == Init /\ [][SubmitNext]_vars

\* Session creation with every outcome of the create request, followed by the
\* consent submissions of a backend that answers them.
CreateNext ==
    \/ PressCreate
    \/ \E o \in Outcomes : CompleteCreate(o)
    \/ \E s \in SessionIds : OpenConsent(s)
    \/ \E c \in Clients, d \in {"Granted", "Declined"} : PressConsent(c, d)
    \/ \E c \in Clients, s \in SessionIds, d \in {"Granted", "Declined"} :
          CompleteConsent(c, s, d, "served")
    \/ \E c \in Clients : \E a \in AlertsOf(c) : AckGoBack(c, a)
    \/ \E c \in Clients : \E a \in AlertsOf(c) : AckDismiss(c, a)

CreateSpec == Init /\ [][CreateNext]_vars

\* ------------------------------------------------------------ properties

BothGranted(s) == \A c \in Clients : sess[s].dec[c] = "Granted"

\* This step completed request r.
Consumed(r) == CopiesIn(r, net') < CopiesIn(r, net)

StatusReq(c, s) == Req("status", c, s, "none")
StartReq(c, s) == Req("start", c, s, "none")

\* C1: a session is Started only if both consent records are Granted, and a
\* client has a start request in flight only for a session whose poll could
\* report both_consented.
C1_StartedOnlyAfterBothConsented ==
    \A s \in SessionIds :
        /\ sess[s].state = "Started" => BothGranted(s)
        /\ \A c \in Clients : BagIn(StartReq(c, s), net) => BothGranted(s)

\* A session has been started and its client has been told.
C1_Witness ==
    \E s \in SessionIds, c \in Clients :
        /\ sess[s].state = "Started"
        /\ BagIn(Alert("Session Started", s), alerts[c])

\* C2: whenever the camera is recording, the session it records for is Started.
C2_RecordingOnlyWhenStarted ==
    \A t \in BagToSet(recording) : sess[t.sid].state = "Started"

\* C3: one client never has two status requests outstanding for one session,
\* nor two pending poll timers.
C3_AtMostOnePoll ==
    \A c \in Clients, s \in SessionIds :
        /\ CopiesIn(StatusReq(c, s), net) <= 1
        /\ CopiesIn(s, timers[c]) <= 1

\* C4: a status poll never ends silently: the step that completes it
\* schedules the next tick, issues the start request, or notifies the user.
C4_FailedPollRetried ==
    [][\A c \in Clients, s \in SessionIds :
          Consumed(StatusReq(c, s)) =>
              \/ CopiesIn(s, timers'[c]) > CopiesIn(s, timers[c])
              \/ CopiesIn(StartReq(c, s), net') > CopiesIn(StartReq(c, s), net)
              \/ alerts'[c] # alerts[c]]_vars

PollTerminal == {"BothConsented", "Started", "Cancelled", "Expired"}

\* C5: a status response that reports a state terminal for polling schedules
\* no further poll.
C5_TerminalResponseStopsPolling ==
    [][\A c \in Clients, s \in SessionIds :
          Consumed(StatusReq(c, s)) /\ sess[s].state \in PollTerminal =>
              timers'[c] = timers[c]]_vars

\* C6: once a client has left its ConsentScreen, no poll timer of it is pending.
C6_NoTimerAfterLeaving ==
    \A c \in Clients : screen[c] = "left" => timers[c] = EmptyBag

\* C7: the session state is the one evaluate gives for the recorded decisions,
\* whatever order they arrived in, and a submission acknowledged as recorded
\* writes the submitter's record and leaves the other participant's alone.
C7_StateFromDecisions ==
    \A s \in SessionIds :
        /\ sess[s].state \in {"None", "Created"} => sess[s].dec = NoDecisions
        /\ sess[s].state \in {"AwaitingConsent", "BothConsented", "Cancelled"}
              => sess[s].state = Evaluate(sess[s].dec)
        /\ sess[s].state = "AwaitingConsent" => sess[s].dec # NoDecisions
        /\ sess[s].state = "Started" => BothGranted(s)

C7_NoLostUpdate ==
    \A c \in Clients, s \in SessionIds, d \in {"Granted", "Declined"} :
        /\ Consumed(Req("consent", c, s, d))
        /\ alerts'[c] = alerts[c] (+) One(Alert(ConsentAlert(TRUE, d), s))
        => /\ sess'[s].dec[c] = d
           /\ sess'[s].dec[Other(c)] = sess[s].dec[Other(c)]

HappyOrder ==
    {<<"None", "Created">>, <<"Created", "AwaitingConsent">>,
     <<"AwaitingConsent", "BothConsented">>, <<"BothConsented", "Started">>}

StaleStates == {"Cancelled", "BothConsented"}
ErrorAlerts == {"Failed to record consent", "Network error"}

\* C9: a consent submission completed while the session is Cancelled or
\* BothConsented changes no session and no record, and the client shows an
\* error instead of 'Consent Recorded' or 'Session Cancelled'.
C9_StaleSubmissionRejected ==
    [][\A c \in Clients, s \in SessionIds, d \in {"Granted", "Declined"} :
          Consumed(Req("consent", c, s, d)) /\ sess[s].state \in StaleStates =>
              /\ sess' = sess
              /\ \E msg \in ErrorAlerts :
                    alerts'[c] = alerts[c] (+) One(Alert(msg, NoSession))]_vars

\* A submission made after the session was settled has been refused and the
\* refusal is on screen.
C9_Witness ==
    \E s \in SessionIds, c \in Clients :
        /\ sess[s].state \in StaleStates
        /\ consentSid[c] = s
        /\ BagIn(Alert("Failed to record consent", NoSession), alerts[c])

\* C10: an upload that failed on a transient error has used the whole retry
\* budget; one that failed on a 4xx made a single attempt.
C10_UploadRetried ==
    task.status = "Failed" =>
        /\ task.reason \in {"503", "neterr"} => task.attempt = RETRY_ATTEMPTS
        /\ task.reason = "4xx" => task.attempt = 1

UploadReq(s) == Req("upload", "initiator", s, "none")
UploadFailureAlerts == {"Failed to upload video", "Upload failed"}

\* C11: no artifact is silently dropped: when an upload completes, either the
\* backend acknowledged it, or the failure is shown to the user and the client
\* still holds the artifact's handle for a manual retry.
C11_ArtifactNeverDropped ==
    [][\A s \in SessionIds :
          Consumed(UploadReq(s)) =>
              \/ task'.status = "Succeeded"
              \/ /\ \E msg \in UploadFailureAlerts :
                        BagIn(Alert(msg, NoSession), alerts'["initiator"])
                 /\ task'.held]_vars

Uploads(s) == CopiesIn(UploadReq(s), net)

\* C12: an upload request is issued only by the step in which a recordAsync
\* call resolves, one request for that one recording and for its session, so
\* no artifact ever has two transfers in flight.
C12_OneUploadPerRecording ==
    [][\A s \in SessionIds :
          CopiesIn(UploadReq(s), net') > Uploads(s) =>
              /\ CopiesIn(UploadReq(s), net') = Uploads(s) + 1
              /\ \E t \in BagToSet(recording) :
                    t.sid = s /\ recording' = recording (-) One(t)
              /\ \A o \in SessionIds \ {s} :
                    CopiesIn(UploadReq(o), net') = Uploads(o)]_vars

\* A recording has ended and its one upload is in flight.
C12_Witness ==
    /\ recording = EmptyBag
    /\ task.status = "InFlight"
    /\ \E s \in SessionIds : Uploads(s) = 1

\* C13: when a capture of a Started session that nobody stopped ends at the
\* maximum duration, the controller's own state no longer says it is recording.
C13_CeilingStopsCapture ==
    [][\A t \in BagToSet(recording) :
          /\ ~t.stop
          /\ sess[t.sid].state = "Started"
          /\ RecordDone(t)
          => ~isRecording']_vars

\* recordAsync calls of one session that have not settled.
Takes(s) == CopiesIn(Take(s, FALSE), recording) + CopiesIn(Take(s, TRUE), recording)

\* C14: a Started session never has two recordAsync calls unsettled at once.
C14_OneActiveRecording ==
    \A s \in SessionIds : sess[s].state = "Started" => Takes(s) <= 1

\* The phase in which capture may start: the client's session is Started.
CapturePhase == sessionId # NoSession /\ sess[sessionId].state = "Started"

\* C15: a press that would start capture outside the capture phase (no
\* session yet, or one not Started) raises an error and changes neither
\* isRecording nor the camera.
C15_InvalidStartRejected ==
    [][ToggleRecording /\ ~isRecording /\ ~CapturePhase =>
          /\ alerts'["initiator"] # alerts["initiator"]
          /\ isRecording' = isRecording
          /\ recording' = recording]_vars

\* C16: when recordAsync fails for a Started session, an error is shown, no
\* upload is issued and no upload task appears, and the message shown for one
\* cause of failure differs from the message shown for the other.
C16_CaptureFailureSurfaced ==
    [][\A t \in BagToSet(recording), why \in FailCauses :
          sess[t.sid].state = "Started" /\ RecordFail(t, why) =>
              /\ BagIn(Alert(RecordingAlert(why), NoSession), alerts'["initiator"])
              /\ net' = net
              /\ task' = task
              /\ \A other \in FailCauses \ {why} :
                    RecordingAlert(other) # RecordingAlert(why)]_vars

\* C17: every core request answered 401 puts an error before the user of the
\* client that sent it, and a status poll answered 401 schedules no further
\* poll.
C17_UnauthorizedSurfaced ==
    [][\A c \in Clients, s \in SessionIds :
          LET shown == alerts'[c] # alerts[c]
          IN  /\ CompleteCreate("401") /\ c = "initiator" => shown
              /\ \A d \in {"Granted", "Declined"} :
                    CompleteConsent(c, s, d, "401") => shown
              /\ CompleteStatus(c, s, "401") => shown /\ timers'[c] = timers[c]
              /\ CompleteStart(c, s, "401") => shown
              /\ CompleteUpload(s, "401") /\ c = "initiator" => shown]_vars

\* C18: the client's session id, once assigned, never changes, and the client
\* creates at most one session.
C18_SessionIdAssignedOnce ==
    [][/\ sessionId # NoSession => sessionId' = sessionId
       /\ \A s \in SessionIds :
             sess[s].state = "None" /\ sess'[s].state # "None" => Created = {}]_vars

\* A recordAsync call is in progress: one that stopRecording() has not ended.
CameraRecording == \E t \in BagToSet(recording) : ~t.stop

\* C19: isRecording is true exactly when a recordAsync call is in progress.
C19_FlagAgreesWithCamera == isRecording <=> CameraRecording

\* C20: the step that handles an ok status response with both_consented
\* issues one start request and schedules no poll; the step that handles the
\* start response issues no request and schedules no poll, and when the start
\* failed it shows nothing.
C20_StartOnceThenStop ==
    [][\A c \in Clients, s \in SessionIds :
          /\ CompleteStatus(c, s, "served") /\ BothConsented(sess[s]) =>
                /\ CopiesIn(StartReq(c, s), net') = CopiesIn(StartReq(c, s), net) + 1
                /\ CopiesIn(StatusReq(c, s), net') = CopiesIn(StatusReq(c, s), net) - 1
                /\ timers' = timers
          /\ Consumed(StartReq(c, s)) =>
                /\ CopiesIn(StartReq(c, s), net') = CopiesIn(StartReq(c, s), net) - 1
                /\ CopiesIn(StatusReq(c, s), net') = CopiesIn(StatusReq(c, s), net)
                /\ timers' = timers
          /\ \A o \in NoBodyOutcomes :
                /\ CompleteStart(c, s, o)
                /\ (o # "served" \/ ~StartValid(sess[s]))
                => alerts' = alerts /\ sess' = sess]_vars

\* A poll chain has reached its start request: the request is in flight, and
\* the client has no poll scheduled and no status request outstanding.
C20_Witness ==
    \E c \in Clients, s \in SessionIds :
        /\ BagIn(StartReq(c, s), net)
        /\ timers[c] = EmptyBag
        /\ ~BagIn(StatusReq(c, s), net)

ConsentReq(c, s, d) == Req("consent", c, s, d)
Recorded(c, s) == CopiesIn(Alert("Consent Recorded", s), alerts[c])

\* C21: a status request is sent only by the step that acknowledges a
\* 'Consent Recorded' alert or by a poll timer firing; that alert is shown
\* only for an 'I Consent' submission the backend accepted; and the step that
\* handles a declined or failed submission sends no status or start request,
\* schedules no poll and shows no 'Consent Recorded'.
C21_OnlyAcceptedConsentPolls ==
    [][\A c \in Clients, s \in SessionIds :
          /\ CopiesIn(StatusReq(c, s), net') > CopiesIn(StatusReq(c, s), net) =>
                \/ CopiesIn(Alert("Consent Recorded", s), alerts'[c]) < Recorded(c, s)
                \/ CopiesIn(s, timers'[c]) < CopiesIn(s, timers[c])
          /\ CopiesIn(Alert("Consent Recorded", s), alerts'[c]) > Recorded(c, s) =>
                /\ Consumed(ConsentReq(c, s, "Granted"))
                /\ AcceptsConsent(sess[s])
                /\ sess'[s].dec[c] = "Granted"
          /\ \A d \in {"Granted", "Declined"}, o \in NoBodyOutcomes :
                /\ Consumed(ConsentReq(c, s, d))
                /\ (d = "Declined" \/ o # "served" \/ ~AcceptsConsent(sess[s]))
                /\ CompleteConsent(c, s, d, o)
                => /\ CopiesIn(StatusReq(c, s), net') = CopiesIn(StatusReq(c, s), net)
                   /\ CopiesIn(StartReq(c, s), net') = CopiesIn(StartReq(c, s), net)
                   /\ timers' = timers
                   /\ CopiesIn(Alert("Consent Recorded", s), alerts'[c])
                         = Recorded(c, s)]_vars

\* A submission has failed on the network and its client, still on the
\* ConsentScreen, has no poll scheduled and no status request outstanding.
C21_Witness ==
    \E c \in Clients :
        /\ screen[c] = "open"
        /\ BagIn(Alert("Network error", NoSession), alerts[c])
        /\ timers[c] = EmptyBag
        /\ InFlight("status", c) = 0

CreateReq == Req("create", "initiator", NoSession, "none")
CreateAlertCount(al) ==
    CopiesIn(Alert("Failed to create session", NoSession), al["initiator"])
        + CopiesIn(Alert("Network error", NoSession), al["initiator"])

\* C22: a step that changes sessionId, opens the initiator's ConsentScreen or
\* changes the session that screen is about handles a create response with
\* which the backend created a session, and it leaves sessionId and the
\* ConsentScreen on that same new session; a step that handles a failed
\* create response (non-ok, unreadable or no response) changes none of the
\* three and shows one error alert.
C22_FailedCreateChangesNothing ==
    [][/\ (\/ sessionId' # sessionId
           \/ consentSid'["initiator"] # consentSid["initiator"]
           \/ screen["initiator"] # "open" /\ screen'["initiator"] = "open")
          => /\ Consumed(CreateReq)
             /\ sessionId' \in SessionIds
             /\ sess[sessionId'].state = "None"
             /\ sess'[sessionId'].state = "Created"
             /\ screen'["initiator"] = "open"
             /\ consentSid'["initiator"] = sessionId'
       /\ \A o \in Outcomes \ {"served"} :
             CompleteCreate(o)
             => /\ sessionId' = sessionId
                /\ screen'["initiator"] = screen["initiator"]
                /\ consentSid'["initiator"] = consentSid["initiator"]
                /\ CreateAlertCount(alerts') = CreateAlertCount(alerts) + 1]_vars

\* A create request has failed with a non-ok response: its alert is showing,
\* no create is outstanding, and the initiator is still on the VideoCallScreen
\* with no sessionId.
C22_Witness ==
    /\ BagIn(Alert("Failed to create session", NoSession), alerts["initiator"])
    /\ InFlight("create", "initiator") = 0
    /\ sessionId = NoSession
    /\ screen["initiator"] = "closed"
    /\ consentSid["initiator"] = NoSession

====
